---------------------------- MODULE Spec2Model ----------------------------
(***************************************************************************)
(* Model of the refresh-and-render pipeline of src/weather.py.             *)
(*                                                                         *)
(* The program is a single-threaded Tk application.  update_data is run    *)
(* by the module (line 217), by the Search button (line 183) and by the    *)
(* timers it arms itself (line 140).  fade_in calls widget.update(), which *)
(* dispatches pending events, so update_data can be entered again while an *)
(* earlier activation is suspended inside fade_in.  The model therefore    *)
(* keeps a call stack of update_data activations; only the topmost one     *)
(* runs.  The network calls, time.sleep, chart_canvas.draw and the message *)
(* boxes are modelled as blocking steps that dispatch no callback.         *)
(*                                                                         *)
(* Closing the window destroys root.  From then on Tk delivers no event    *)
(* and every call on a widget raises TclError, an Exception that the       *)
(* handler of line 136 catches; root.after is Tcl's own timer command and  *)
(* still succeeds.  The source has no stop flag and no WM_DELETE_WINDOW    *)
(* handler.                                                                *)
(*                                                                         *)
(* Strings are sequences of one-character strings.  A forecast entry's     *)
(* dt_txt is the pair (date, hour) that strptime parses it into.           *)
(***************************************************************************)
EXTENDS Integers, Sequences, FiniteSets, TLC

(***************************************************************************)
(* Bounds of the model.                                                    *)
(***************************************************************************)
\* Deepest nesting of update_data activations that is explored.
MaxDepth == 2
\* Most refresh chains (pending timers plus running activations) explored.
MaxTimers == 2
\* Iterations of the loop of fade_in that are explored (the code's default
\* is steps=10; every iteration does the same widget.update()).
FadeSteps == 1
\* Longest regular forecast feed drawn in CycleSpec.
MaxFeedLen == 8
\* Longest irregular forecast feed drawn in CycleSpec.
MaxMixLen == 4

(***************************************************************************)
(* Configuration (lines 28-32) and the widgets' value sets.                *)
(***************************************************************************)
DEFAULT_CITY == <<"P", "o", "i", "p", "e", "t">>

UnitChoices == {"Celsius", "Fahrenheit"}

\* Texts the user types into city_entry.
CityInputs == {DEFAULT_CITY, <<" ", " ">>}

Min(a, b) == IF a < b THEN a ELSE b

(***************************************************************************)
(* str.strip(), line 62.                                                   *)
(***************************************************************************)
StripNone(s) == s

RECURSIVE Strip(_)
Strip(s) ==
    IF s = <<>> THEN s
    ELSE IF Head(s) = " " THEN Strip(Tail(s))
    ELSE IF s[Len(s)] = " " THEN Strip(SubSeq(s, 1, Len(s) - 1))
    ELSE s

\* Lines 66-67.
UnitsOf(uv) == IF uv = "Celsius" THEN "metric" ELSE "imperial"

UnitSymbol(units) == IF units = "metric" THEN "C" ELSE "F"

(***************************************************************************)
(* Forecast feeds.  Slot k is the 3-hour sample starting 3*k hours after   *)
(* midnight of day 0.                                                      *)
(***************************************************************************)
Entry(date, hour, temp) ==
    [dt_txt |-> [date |-> date, hour |-> hour],
     temp |-> temp, temp_min |-> temp - 2, temp_max |-> temp + 3]

Sample(k) == Entry((3 * k) \div 24, (3 * k) % 24, 10 + (k % 7))

\* n samples, every step-th slot from slot start on.
RegularFeed(start, step, n) == [i \in 1..n |-> Sample(start + step * (i - 1))]

RegularFeeds ==
    {RegularFeed(start, step, n) :
        start \in 0..7, step \in {1, 4, 8}, n \in 0..MaxFeedLen}

\* Entries for feeds that are out of order, repeat a date at noon, or have
\* a date without a noon sample.
MixEntries ==
    {Entry(0, 12, 18), Entry(0, 12, 25), Entry(0, 9, 12), Entry(1, 12, 16),
     Entry(2, 15, 14)}

RECURSIVE SeqsUpTo(_, _)
SeqsUpTo(S, n) ==
    IF n = 0 THEN {<<>>}
    ELSE LET shorter == SeqsUpTo(S, n - 1)
         IN  shorter \cup {Append(s, e) : s \in {t \in shorter : Len(t) = n - 1}, e \in S}

MixedFeeds == SeqsUpTo(MixEntries, MaxMixLen)

\* The example of the specification's section 8: Mon 00:00, 03:00, 12:00,
\* Tue 00:00, 12:00.
ExampleFeed ==
    <<Entry(0, 0, 10), Entry(0, 3, 12), Entry(0, 12, 18),
      Entry(1, 0, 9), Entry(1, 12, 16)>>

\* Feeds the provider answers with in CycleSpec, and in Spec.
AllFeeds == RegularFeeds \cup MixedFeeds \cup {ExampleFeed}

FewFeeds == {<<>>, <<Entry(0, 12, 18), Entry(1, 12, 16)>>}

(***************************************************************************)
(* The forecast reduction, lines 103-134.                                  *)
(***************************************************************************)
\* Line 111 without the test of days_added.
DailyMatchAnyNoon(entry, days_added) == entry.dt_txt.hour = 12

\* Line 111.
DailyMatch(entry, days_added) ==
    entry.dt_txt.hour = 12 /\ entry.dt_txt.date \notin days_added

\* Line 123 never true.
BreakNever(col) == FALSE

\* Line 123.
BreakAt(col) == col = 5

\* Lines 114-120: the three labels of one daily card.
Card(entry, col, req) ==
    [date |-> entry.dt_txt.date,
     day |-> entry.dt_txt.date % 7,
     temp_min |-> entry.temp_min, temp_max |-> entry.temp_max,
     unit |-> UnitSymbol(req[2]), col |-> col, req |-> req]

\* Line 129 with [:3].
HourlySliceShort(list) == SubSeq(list, 1, Min(3, Len(list)))

\* Line 129: forecast_data["list"][:4].
HourlySlice(list) == SubSeq(list, 1, Min(4, Len(list)))

\* Line 131: strftime("%H:%M") keeps the time of day and drops the date.
TimeLabel(dt_txt) == <<dt_txt.hour, 0>>

\* Lines 152-155 without ax.clear(): the old lines stay on the axes.
AxesKept(old, unit, req) == [old EXCEPT !.unit = unit, !.req = req]

\* Lines 152-155: ax.clear(), then title, label and grid.
Axes(old, unit, req) == [unit |-> unit, x |-> <<>>, y |-> <<>>, req |-> req]

\* Line 159 stopping one pair early.
ZipLenShort(hours, temps) ==
    IF Min(Len(hours), Len(temps)) = 0 THEN 0 ELSE Min(Len(hours), Len(temps)) - 1

\* Line 159: zip(hours, temps) yields as many pairs as the shorter list.
ZipLen(hours, temps) == Min(Len(hours), Len(temps))

(***************************************************************************)
(* State.                                                                  *)
(***************************************************************************)
VARIABLES
    city_entry,         \* text of the Entry widget (line 175)
    unit_var,           \* value of the unit Combobox (line 179)
    timers,             \* pending root.after(REFRESH_INTERVAL, update_data)
    stack,              \* activations of update_data, the running one last
    weather_label,      \* request shown by weather_label, <<>> when blank
    details_label,      \* request shown by details_label
    weather_icon_label, \* request whose icon is shown
    quote_textbox,      \* content of the quote box
    forecast_frame,     \* children of forecast_frame, one element per card
    chart,              \* what ax shows
    closed              \* the window has been closed and root destroyed

vars ==
    <<city_entry, unit_var, timers, stack, weather_label, details_label,
      weather_icon_label, quote_textbox, forecast_frame, chart, closed>>

\* The displayed sections.
Display ==
    <<weather_label, details_label, weather_icon_label, quote_textbox,
      forecast_frame, chart>>

NoCalls == [current |-> 0, forecast |-> 0, quote |-> 0, icon |-> 0]

\* An activation of update_data that has not run its first statement.  The
\* fields from raw on record what the activation did; done holds the stages
\* it has carried out, each of which writes one displayed section.
NewFrame ==
    [pc |-> "entry", city |-> <<>>, units |-> "",
     weather |-> "none", forecast_data |-> [hasList |-> FALSE, list |-> <<>>],
     days_added |-> {}, col |-> 0, idx |-> 0,
     fade_i |-> 0, fade_ret |-> "",
     hours |-> <<>>, temps |-> <<>>, x_vals |-> <<>>, y_vals |-> <<>>,
     raw |-> city_entry, calls |-> NoCalls,
     errors |-> 0, warnings |-> 0, armed |-> FALSE, cause |-> "none",
     cards |-> <<>>, done |-> {}]

Top == stack[Len(stack)]

Running(p) == stack # <<>> /\ Top.pc = p

SetTop(f) == stack' = [stack EXCEPT ![Len(stack)] = f]

Req(f) == <<f.city, f.units>>

\* The handler with a return: the error is reported and no tick is armed.
OnExceptionReturn(f) == [f EXCEPT !.pc = "ret", !.errors = @ + 1]

\* Lines 136-137: the handler reports the error and falls through to
\* line 140.
OnException(f) == [f EXCEPT !.pc = "arm", !.errors = @ + 1]

Raise(f, cause) == OnException([f EXCEPT !.cause = cause])

\* root.after followed by one more fade_in instead of the end of the function.
ArmedThenFade(f) == [f EXCEPT !.armed = TRUE, !.pc = "fade", !.fade_ret = "quote"]

\* Line 140 is the last statement of update_data.
Armed(f) == [f EXCEPT !.armed = TRUE, !.pc = "ret"]

Init ==
    /\ city_entry = DEFAULT_CITY
    /\ unit_var = "Celsius"
    /\ timers = 0
    /\ closed = FALSE
    /\ weather_label = <<>>
    /\ details_label = <<>>
    /\ weather_icon_label = <<>>
    /\ quote_textbox = ""
    /\ forecast_frame = <<>>
    /\ chart = [unit |-> "", x |-> <<>>, y |-> <<>>, req |-> <<>>]
    \* line 217: the module calls update_data() before root.mainloop()
    /\ stack = <<[NewFrame EXCEPT !.raw = DEFAULT_CITY]>>

(***************************************************************************)
(* update_data, lines 61-140.                                              *)
(***************************************************************************)
\* Lines 62-67.
Validate ==
    /\ Running("entry")
    /\ LET city == Strip(city_entry)
       IN  IF city = <<>>
           THEN SetTop([Top EXCEPT !.warnings = @ + 1, !.pc = "ret"])
           ELSE SetTop([Top EXCEPT !.city = city, !.units = UnitsOf(unit_var),
                                   !.pc = "current"])
    /\ UNCHANGED <<closed, city_entry, unit_var, timers, weather_label, details_label,
                   weather_icon_label, quote_textbox, forecast_frame, chart>>

\* Line 70.
FetchCurrent ==
    /\ Running("current")
    /\ LET f == [Top EXCEPT !.calls.current = @ + 1]
       IN  \E r \in {"ok", "missing", "raise"} :
               IF r = "raise"
               THEN SetTop(Raise(f, "current"))
               ELSE SetTop([f EXCEPT !.weather = r, !.pc = "forecast"])
    /\ UNCHANGED <<closed, city_entry, unit_var, timers, weather_label, details_label,
                   weather_icon_label, quote_textbox, forecast_frame, chart>>

\* Line 71.  The answer either raises, or lacks "list", or carries a feed.
FetchForecast(Feeds) ==
    /\ Running("forecast")
    /\ LET f == [Top EXCEPT !.calls.forecast = @ + 1]
       IN  \/ SetTop(Raise(f, "forecast"))
           \/ SetTop([f EXCEPT !.pc = "render"])
           \/ \E feed \in Feeds :
                  SetTop([f EXCEPT !.forecast_data = [hasList |-> TRUE, list |-> feed],
                                   !.pc = "render"])
    /\ UNCHANGED <<closed, city_entry, unit_var, timers, weather_label, details_label,
                   weather_icon_label, quote_textbox, forecast_frame, chart>>

\* Lines 74-88.
RenderCurrent ==
    /\ Running("render")
    /\ IF Top.weather = "missing"
       THEN /\ SetTop(Raise(Top, "weather_fields"))
            /\ UNCHANGED <<weather_label, details_label>>
       ELSE IF closed
       THEN /\ SetTop(Raise(Top, "closed"))
            /\ UNCHANGED <<weather_label, details_label>>
       ELSE /\ weather_label' = Req(Top)
            /\ details_label' = Req(Top)
            /\ SetTop([Top EXCEPT !.pc = "icon", !.done = @ \cup {"labels"}])
    /\ UNCHANGED <<closed, city_entry, unit_var, timers, weather_icon_label,
                   quote_textbox, forecast_frame, chart>>

\* Lines 91-94, up to the call of fade_in.
FetchIcon ==
    /\ Running("icon")
    /\ LET f == [Top EXCEPT !.calls.icon = @ + 1]
       IN  \/ /\ SetTop(Raise(f, "icon"))
              /\ UNCHANGED weather_icon_label
           \/ /\ closed
              /\ SetTop(Raise(f, "closed"))
              /\ UNCHANGED weather_icon_label
           \/ /\ ~closed
              /\ weather_icon_label' = Req(f)
              /\ SetTop([f EXCEPT !.pc = "fade", !.fade_ret = "quote", !.fade_i = 0,
                                  !.done = @ \cup {"icon"}])
    /\ UNCHANGED <<closed, city_entry, unit_var, timers, weather_label, details_label,
                   quote_textbox, forecast_frame, chart>>

\* Lines 97-101.
FetchQuote ==
    /\ Running("quote")
    /\ LET f == [Top EXCEPT !.calls.quote = @ + 1]
       IN  \/ /\ SetTop(Raise(f, "quote"))
              /\ UNCHANGED quote_textbox
           \/ /\ closed
              /\ SetTop(Raise(f, "closed"))
              /\ UNCHANGED quote_textbox
           \/ /\ ~closed
              /\ quote_textbox' = "quote"
              /\ SetTop([f EXCEPT !.pc = "clear", !.done = @ \cup {"quote"}])
    /\ UNCHANGED <<closed, city_entry, unit_var, timers, weather_label, details_label,
                   weather_icon_label, forecast_frame, chart>>

\* Lines 104-108: the frame is emptied, then forecast_data["list"] is read.
ClearForecast ==
    /\ Running("clear")
    /\ IF closed
       THEN /\ SetTop(Raise(Top, "closed"))
            /\ UNCHANGED forecast_frame
       ELSE /\ forecast_frame' = <<>>
            /\ LET f == [Top EXCEPT !.days_added = {}, !.col = 0,
                                    !.done = @ \cup {"cleared"}]
               IN  IF f.forecast_data.hasList
                   THEN SetTop([f EXCEPT !.idx = 1, !.pc = "daily"])
                   ELSE SetTop(Raise(f, "forecast_fields"))
    /\ UNCHANGED <<closed, city_entry, unit_var, timers, weather_label, details_label,
                   weather_icon_label, quote_textbox, chart>>

\* Lines 108-121: one iteration of the daily loop, up to the call of fade_in.
DailyIter ==
    /\ Running("daily")
    /\ LET f == Top
           list == f.forecast_data.list
       IN  IF f.idx > Len(list)
           THEN /\ SetTop([f EXCEPT !.pc = "hourly", !.done = @ \cup {"cards"}])
                /\ UNCHANGED forecast_frame
           ELSE LET entry == list[f.idx]
                IN  IF DailyMatch(entry, f.days_added)
                    THEN LET g == [f EXCEPT !.days_added = @ \cup {entry.dt_txt.date},
                                            !.calls.icon = @ + 1]
                             card == Card(entry, f.col, Req(f))
                         IN  \/ /\ SetTop(Raise(g, "icon"))
                                /\ UNCHANGED forecast_frame
                             \/ /\ closed
                                /\ SetTop(Raise(g, "closed"))
                                /\ UNCHANGED forecast_frame
                             \/ /\ ~closed
                                /\ forecast_frame' = Append(forecast_frame, card)
                                /\ SetTop([g EXCEPT !.cards = Append(@, card),
                                                    !.pc = "fade", !.fade_ret = "daily",
                                                    !.fade_i = 0])
                    ELSE /\ SetTop([f EXCEPT !.idx = @ + 1])
                         /\ UNCHANGED forecast_frame
    /\ UNCHANGED <<closed, city_entry, unit_var, timers, weather_label, details_label,
                   weather_icon_label, quote_textbox, chart>>

\* Lines 145-148: one iteration of fade_in, widget.update() then the sleep.
FadeStep ==
    /\ Running("fade")
    /\ Top.fade_i < FadeSteps
    /\ IF closed
       THEN SetTop(Raise(Top, "closed"))
       ELSE SetTop([Top EXCEPT !.fade_i = @ + 1])
    /\ UNCHANGED <<closed, city_entry, unit_var, timers, weather_label, details_label,
                   weather_icon_label, quote_textbox, forecast_frame, chart>>

\* fade_in returns: to line 97, or to lines 122-124 of the daily loop.
FadeReturn ==
    /\ Running("fade")
    /\ Top.fade_i = FadeSteps
    /\ LET f == [Top EXCEPT !.fade_i = 0, !.fade_ret = ""]
       IN  IF Top.fade_ret = "quote"
           THEN SetTop([f EXCEPT !.pc = "quote"])
           ELSE LET g == [f EXCEPT !.col = @ + 1]
                IN  IF BreakAt(g.col)
                    THEN SetTop([g EXCEPT !.pc = "hourly", !.done = @ \cup {"cards"}])
                    ELSE SetTop([g EXCEPT !.idx = @ + 1, !.pc = "daily"])
    /\ UNCHANGED <<closed, city_entry, unit_var, timers, weather_label, details_label,
                   weather_icon_label, quote_textbox, forecast_frame, chart>>

\* Lines 127-132.
Hourly ==
    /\ Running("hourly")
    /\ LET slice == HourlySlice(Top.forecast_data.list)
       IN  SetTop([Top EXCEPT
                      !.hours = [i \in 1..Len(slice) |-> TimeLabel(slice[i].dt_txt)],
                      !.temps = [i \in 1..Len(slice) |-> slice[i].temp],
                      !.done = @ \cup {"hourly"},
                      !.pc = "chart"])
    /\ UNCHANGED <<closed, city_entry, unit_var, timers, weather_label, details_label,
                   weather_icon_label, quote_textbox, forecast_frame, chart>>

\* Lines 134 and 152-158.
ChartClear ==
    /\ Running("chart")
    /\ chart' = Axes(chart, UnitSymbol(Top.units), Req(Top))
    /\ SetTop([Top EXCEPT !.x_vals = <<>>, !.y_vals = <<>>, !.pc = "plot",
                          !.done = @ \cup {"axes"}])
    /\ UNCHANGED <<closed, city_entry, unit_var, timers, weather_label, details_label,
                   weather_icon_label, quote_textbox, forecast_frame>>

\* Lines 159-164: one iteration of the loop of animate_chart, or its end.
ChartStep ==
    /\ Running("plot")
    /\ LET f == Top
           k == Len(f.x_vals) + 1
       IN  IF k <= ZipLen(f.hours, f.temps)
           THEN LET g == [f EXCEPT !.x_vals = Append(@, f.hours[k]),
                                   !.y_vals = Append(@, f.temps[k])]
                IN  /\ chart' = [chart EXCEPT !.x = g.x_vals, !.y = g.y_vals]
                    \* ax.plot works on the figure; chart_canvas.draw needs Tk
                    /\ IF closed THEN SetTop(Raise(g, "closed")) ELSE SetTop(g)
           ELSE /\ SetTop([f EXCEPT !.pc = "arm", !.done = @ \cup {"chart"}])
                /\ UNCHANGED chart
    /\ UNCHANGED <<closed, city_entry, unit_var, timers, weather_label, details_label,
                   weather_icon_label, quote_textbox, forecast_frame>>

\* Line 140.
Arm ==
    /\ Running("arm")
    /\ timers' = timers + 1
    /\ SetTop(Armed(Top))
    /\ UNCHANGED <<closed, city_entry, unit_var, weather_label, details_label,
                   weather_icon_label, quote_textbox, forecast_frame, chart>>

\* update_data returns to its caller: mainloop, or the update() of a fade_in.
\* Once the window is closed that update() has no event left and returns.
Return ==
    /\ Running("ret")
    /\ LET rest == SubSeq(stack, 1, Len(stack) - 1)
       IN  IF closed /\ rest # <<>>
           THEN stack' = [rest EXCEPT ![Len(rest)].fade_i = @ + 1]
           ELSE stack' = rest
    /\ UNCHANGED <<closed, city_entry, unit_var, timers, weather_label, details_label,
                   weather_icon_label, quote_textbox, forecast_frame, chart>>

(***************************************************************************)
(* Events.  Tk runs callbacks from root.mainloop() (line 219), when no     *)
(* activation is running, and from the widget.update() of fade_in          *)
(* (line 147).                                                             *)
(***************************************************************************)
Dispatching ==
    /\ ~closed
    /\ IF stack = <<>> THEN TRUE ELSE Top.pc = "fade" /\ Top.fade_i < FadeSteps

\* Line 183: the Search button's command is update_data.
SearchClick ==
    /\ Dispatching
    /\ Len(stack) < MaxDepth
    /\ timers + Len(stack) < MaxTimers
    /\ stack' = Append(stack, NewFrame)
    /\ UNCHANGED <<closed, city_entry, unit_var, timers, weather_label, details_label,
                   weather_icon_label, quote_textbox, forecast_frame, chart>>

\* A timer armed at line 140 fires.
TimerTick ==
    /\ Dispatching
    /\ Len(stack) < MaxDepth
    /\ timers > 0
    /\ timers' = timers - 1
    /\ stack' = Append(stack, NewFrame)
    /\ UNCHANGED <<closed, city_entry, unit_var, weather_label, details_label,
                   weather_icon_label, quote_textbox, forecast_frame, chart>>

\* The user types in city_entry (line 175).
EditCity ==
    /\ Dispatching
    /\ \E c \in CityInputs \ {city_entry} : city_entry' = c
    /\ UNCHANGED <<closed, unit_var, timers, stack, weather_label, details_label,
                   weather_icon_label, quote_textbox, forecast_frame, chart>>

\* The user picks a unit in unit_dropdown (lines 179-181); the Combobox has
\* no callback bound.
SelectUnit ==
    /\ Dispatching
    /\ \E u \in UnitChoices \ {unit_var} : unit_var' = u
    /\ UNCHANGED <<closed, city_entry, timers, stack, weather_label, details_label,
                   weather_icon_label, quote_textbox, forecast_frame, chart>>

\* The user closes the window: no WM_DELETE_WINDOW handler is installed, so
\* Tk destroys root.  The update() that delivered the event then returns.
CloseWindow ==
    /\ Dispatching
    /\ closed' = TRUE
    /\ IF stack = <<>>
       THEN UNCHANGED stack
       ELSE SetTop([Top EXCEPT !.fade_i = @ + 1])
    /\ UNCHANGED <<city_entry, unit_var, timers, weather_label, details_label,
                   weather_icon_label, quote_textbox, forecast_frame, chart>>

(***************************************************************************)
(* Specifications.  Spec is the dashboard with its user and its timers,    *)
(* its window staying open.  CycleSpec is the first cycle alone, no event  *)
(* arriving, with the provider's forecast drawn from AllFeeds.             *)
(* TeardownSpec is Spec with a user who may close the window.              *)
(***************************************************************************)
Next ==
    \/ Validate
    \/ FetchCurrent
    \/ FetchForecast(FewFeeds)
    \/ RenderCurrent
    \/ FetchIcon
    \/ FetchQuote
    \/ ClearForecast
    \/ DailyIter
    \/ FadeStep
    \/ FadeReturn
    \/ Hourly
    \/ ChartClear
    \/ ChartStep
    \/ Arm
    \/ Return
    \/ SearchClick
    \/ TimerTick
    \/ EditCity
    \/ SelectUnit

Spec == Init /\ [][Next]_vars

CycleNext ==
    \/ Validate
    \/ FetchCurrent
    \/ FetchForecast(AllFeeds)
    \/ RenderCurrent
    \/ FetchIcon
    \/ FetchQuote
    \/ ClearForecast
    \/ DailyIter
    \/ FadeStep
    \/ FadeReturn
    \/ Hourly
    \/ ChartClear
    \/ ChartStep
    \/ Arm
    \/ Return

CycleSpec == Init /\ [][CycleNext]_vars

TeardownNext ==
    \/ Next
    \/ CloseWindow

TeardownSpec == Init /\ [][TeardownNext]_vars

(***************************************************************************)
(* Properties.                                                             *)
(***************************************************************************)
Frames == {stack[i] : i \in DOMAIN stack}

\* A city text that is empty once trimmed.
IsBlank(s) == \A i \in DOMAIN s : s[i] = " "

RequiredFailures == {"current", "forecast", "weather_fields", "forecast_fields"}

\* C1: every call of update_data, whatever its outcome, ends with a next
\* tick armed by root.after; a call that returns has armed a timer.
C1_EveryCallArms == \A f \in Frames : f.pc = "ret" => f.armed

\* C2: at most one refresh cycle is in progress; an update_data entered
\* while another activation is suspended makes no network call.
C2_NoOverlappingCycle ==
    \A i \in DOMAIN stack : i > 1 => stack[i].calls = NoCalls

\* C3: a cycle whose quote fetch fails reports no error and still rebuilds
\* the forecast cards and the chart.
C3_QuoteFailureTolerated ==
    \A f \in Frames :
        (f.pc = "ret" /\ f.cause = "quote") =>
            f.errors = 0 /\ {"cards", "chart"} \subseteq f.done

\* C4: a cycle in which an icon fetch fails reports no error and still runs
\* its later steps, up to the chart.
C4_IconFailureTolerated ==
    \A f \in Frames :
        (f.pc = "ret" /\ f.cause = "icon") =>
            f.errors = 0 /\ {"quote", "cards", "chart"} \subseteq f.done

\* C5: a cycle in which a required call fails (transport error, or an answer
\* missing a required field) reports exactly one error and has written no
\* displayed section.
C5_RequiredFailureRendersNothing ==
    \A f \in Frames :
        f.cause \in RequiredFailures => f.errors = 1 /\ f.done = {}

C7_EmptyCity ==
    /\ [](\A f \in Frames :
            IsBlank(f.raw) =>
                /\ f.pc \in {"entry", "ret"}
                /\ f.calls = NoCalls
                /\ f.done = {}
                /\ f.errors = 0
                /\ f.pc = "ret" => f.warnings = 1)
    /\ [][(Running("entry") /\ IsBlank(city_entry)) =>
            (Display' = Display /\ Len(stack') = Len(stack) /\ Top'.pc = "ret")]_vars

C7_Witness ==
    \E f \in Frames :
        IsBlank(f.raw) /\ f.raw # <<>> /\ f.pc = "ret" /\ f.warnings = 1

DistinctDates(cards) ==
    \A i, j \in DOMAIN cards : i # j => cards[i].date # cards[j].date

\* C8: for every forecast sequence, one cycle emits at most 5 daily cards
\* and never two cards for the same calendar date.
C8_AtMostFiveDistinct ==
    \A f \in Frames : Len(f.cards) <= 5 /\ DistinctDates(f.cards)

\* The break at the fifth card has cut off a later noon entry of a new date.
C8_Witness ==
    \E f \in Frames :
        /\ "cards" \in f.done
        /\ Len(f.cards) = 5
        /\ \E j \in DOMAIN f.forecast_data.list :
               /\ j > f.idx
               /\ f.forecast_data.list[j].dt_txt.hour = 12
               /\ \A c \in DOMAIN f.cards :
                      f.cards[c].date # f.forecast_data.list[j].dt_txt.date

\* Positions of the first hour-12 entry of each calendar date.
FirstNoons(list) ==
    {i \in DOMAIN list :
        /\ list[i].dt_txt.hour = 12
        /\ \A j \in 1..(i - 1) :
               ~(list[j].dt_txt.hour = 12 /\ list[j].dt_txt.date = list[i].dt_txt.date)}

RECURSIVE Ascending(_)
Ascending(S) ==
    IF S = {} THEN <<>>
    ELSE LET m == CHOOSE x \in S : \A y \in S : x <= y
         IN  <<m>> \o Ascending(S \ {m})

ExpectedDaily(list, req) ==
    LET pos == Ascending(FirstNoons(list))
    IN  [k \in 1..Min(5, Len(pos)) |-> Card(list[pos[k]], k - 1, req)]

IsPrefix(s, t) == Len(s) <= Len(t) /\ s = SubSeq(t, 1, Len(s))

Chronological(list) ==
    \A i, j \in DOMAIN list :
        i < j => 24 * list[i].dt_txt.date + list[i].dt_txt.hour
                     <= 24 * list[j].dt_txt.date + list[j].dt_txt.hour

\* C9: the daily cards of one cycle are exactly the first hour-12 entry of
\* each distinct date, in input order, cut to the first 5 such dates; a date
\* without an hour-12 entry gets no card; for a chronological input the
\* dates of the cards do not decrease.
C9_DailyCards ==
    \A f \in Frames :
        LET list == f.forecast_data.list
            want == ExpectedDaily(list, Req(f))
        IN  /\ IsPrefix(f.cards, want)
            /\ "cards" \in f.done => f.cards = want
            /\ Chronological(list) =>
                   \A i, j \in DOMAIN f.cards : i < j => f.cards[i].date <= f.cards[j].date

\* A finished daily loop over a feed that repeats a date at noon and has a
\* date without a noon entry.
C9_Witness ==
    \E f \in Frames :
        LET list == f.forecast_data.list
        IN  /\ "cards" \in f.done
            /\ Len(f.cards) >= 2
            /\ \E i \in DOMAIN list :
                   \A c \in DOMAIN f.cards : f.cards[c].date # list[i].dt_txt.date
            /\ \E i \in DOMAIN list : list[i].dt_txt.hour = 12 /\ i \notin FirstNoons(list)

\* C10: the hourly trend handed to animate_chart has length min(4, n), its
\* i-th point is the i-th raw entry (time of day and temperature), across
\* date boundaries, never padded; and no feed, however short, makes the
\* cycle fail once the daily loop is through.
C10_HourlyTrend ==
    \A f \in Frames :
        LET list == f.forecast_data.list
        IN  /\ "hourly" \in f.done =>
                /\ Len(f.hours) = Min(4, Len(list))
                /\ Len(f.temps) = Min(4, Len(list))
                /\ \A i \in DOMAIN f.hours :
                       /\ f.hours[i] = <<list[i].dt_txt.hour, 0>>
                       /\ f.temps[i] = list[i].temp
            /\ "cards" \in f.done => f.cause = "none" /\ f.errors = 0
            /\ (f.pc = "ret" /\ "cards" \in f.done) => "chart" \in f.done

\* A feed shorter than 4 entries went through the chart.
C10_Witness ==
    \E f \in Frames :
        /\ f.pc = "ret" /\ "chart" \in f.done
        /\ Len(f.forecast_data.list) \in 1..3
        /\ Len(f.hours) = Len(f.forecast_data.list)

\* C11: a cycle whose forecast list is empty, every other call succeeding,
\* reports no error, shows zero daily cards, draws the chart with zero
\* points and arms the next tick.
C11_EmptyForecast ==
    \A f \in Frames :
        (/\ f.pc = "ret"
         /\ f.forecast_data.hasList /\ f.forecast_data.list = <<>>
         /\ f.weather = "ok"
         /\ f.cause \notin {"icon", "quote"}) =>
            /\ f.errors = 0 /\ f.warnings = 0 /\ f.cause = "none"
            /\ f.cards = <<>> /\ forecast_frame = <<>>
            /\ {"cards", "hourly", "chart"} \subseteq f.done
            /\ f.hours = <<>> /\ f.temps = <<>>
            /\ chart.x = <<>> /\ chart.y = <<>> /\ chart.req = Req(f)
            /\ f.armed

\* An empty-forecast cycle returns after an earlier cycle drew points.
C11_Witness ==
    \E f \in Frames :
        /\ f.pc = "ret" /\ f.armed /\ "chart" \in f.done
        /\ f.forecast_data.hasList /\ f.forecast_data.list = <<>>
        /\ Len(stack) = 1 /\ timers >= 1

\* C12: when no cycle is in progress, a change of the unit selector starts
\* a refresh cycle at once.
C12_UnitChangeRefreshes ==
    [][(stack = <<>> /\ unit_var' # unit_var) => stack' # <<>>]_vars

\* C13: once the window is closed, a cycle in flight performs no further
\* render step and arms no further tick.
C13_NothingAfterTeardown ==
    [][closed => (timers' = timers /\ Display' = Display)]_vars

\* C14: a cycle arms its next tick as its last step: an activation that has
\* armed its tick does nothing more than return, and no tick fires while an
\* activation that has armed one is still in progress.
C14_ArmIsLast ==
    /\ [](\A f \in Frames : f.armed => f.pc = "ret")
    /\ [][timers' > timers =>
            (Running("arm") /\ Len(stack') = Len(stack) /\ Top'.pc = "ret")]_vars
    /\ [][timers' < timers => \A f \in Frames : ~f.armed]_vars

\* A tick fires inside the fade_in of a cycle that has not armed its own.
C14_Witness ==
    /\ Len(stack) = 2
    /\ stack[1].pc = "fade" /\ ~stack[1].armed
    /\ stack[2].pc = "ret" /\ stack[2].armed
    /\ timers >= 1

\* C15: within one cycle the trend line starts from zero points, each step
\* of animate_chart adds exactly one point in input order, the number of
\* points never decreases, and all len(hours) points are drawn before the
\* next tick is armed.
C15_ChartReveal ==
    /\ [](\A f \in Frames :
            /\ f.pc = "plot" =>
                   /\ chart.x = f.x_vals /\ chart.y = f.y_vals
                   /\ IsPrefix(f.x_vals, f.hours) /\ IsPrefix(f.y_vals, f.temps)
            /\ "chart" \in f.done => chart.x = f.hours /\ chart.y = f.temps
            /\ (f.pc \in {"arm", "ret"} /\ "axes" \in f.done) => "chart" \in f.done)
    /\ [][Running("chart") => (chart'.x = <<>> /\ chart'.y = <<>>)]_vars
    /\ [][(Running("plot") /\ Top'.pc = "plot") =>
            (Len(chart'.x) = Len(chart.x) + 1 /\ Len(chart'.y) = Len(chart.y) + 1)]_vars
    /\ [][Running("plot") => Len(chart'.x) >= Len(chart.x)]_vars

\* The whole 4-point trend is on the axes when the tick is armed.
C15_Witness ==
    \E f \in Frames :
        /\ f.armed /\ "chart" \in f.done
        /\ Len(f.hours) = 4 /\ chart.x = f.hours
        /\ f.hours[1] # f.hours[2]

\* C16: in every reachable state at most one refresh timer is pending.
C16_OneTimer == timers <= 1

\* C17: when the only activation returns after a successful cycle, every
\* displayed section comes from that one request.
C17_OneRequestShown ==
    (/\ Len(stack) = 1
     /\ Top.pc = "ret" /\ Top.cause = "none" /\ "chart" \in Top.done) =>
        /\ weather_label = details_label
        /\ weather_icon_label = weather_label
        /\ chart.req = weather_label
        /\ \A i \in DOMAIN forecast_frame : forecast_frame[i].req = weather_label

\* C18: in every reachable state the forecast frame holds at most 5 daily
\* cards and never two cards for the same calendar date.
C18_FrameCards == Len(forecast_frame) <= 5 /\ DistinctDates(forecast_frame)

=============================================================================
